---- MODULE Spec2Model ----
(***************************************************************************)
(* Model of lie/base/manifold_element.h: the CRTP base ManifoldElement,    *)
(* ManifoldChart and ManifoldGeodesic.                                     *)
(*                                                                         *)
(* The Derived realization is the planar rotation group.  An element is    *)
(* its principal angle, an integer number of ticks in (-HalfTurn,HalfTurn].*)
(* Scalars (distances, tolerances) are integers in the same unit, and a    *)
(* fraction is the rational  n / FracDen,  carried as its numerator n.     *)
(* Elements handed in by a caller lie on multiples of FracDen ticks, so    *)
(* that every interpolation the model performs is exact.                   *)
(***************************************************************************)
EXTENDS Integers, FiniteSets, Sequences, TLC

\* ---------------------------------------------------------------- bounds
\* Number of caller-visible element positions per half turn.
HalfSteps == 2
\* Denominator of the fractions handed to Interpolate.
FracDen == 2
\* Fractions range over -MaxExtra/FracDen .. (FracDen+MaxExtra)/FracDen.
MaxExtra == 2
\* Tolerances range over -1 .. MaxTol ticks.
MaxTol == 3
\* Tangent vectors handed to ToManifold range over -MaxTangent .. MaxTangent
\* caller steps.
MaxTangent == 1

\* ------------------------------------------------------------- constants
\* Constants<Scalar>::kEpsilon: the smallest positive scalar of the model.
kEpsilon == 1

HalfTurn == HalfSteps * FracDen
FullTurn == 2 * HalfTurn

\* Wrap an angle to its principal representative in (-HalfTurn, HalfTurn].
WrapAngle(x) == ((x + HalfTurn - 1) % FullTurn) - HalfTurn + 1

Abs(x) == IF x < 0 THEN -x ELSE x

\* Every element of the manifold the model can represent.
Elements == (1 - HalfTurn) .. HalfTurn
\* The valid embedding points a caller constructs elements from.
EmbeddingPoints == { WrapAngle(FracDen * k) : k \in 0 .. (2 * HalfSteps - 1) }
TangentVectors == (1 - HalfTurn) .. HalfTurn
Fractions == (0 - MaxExtra) .. (FracDen + MaxExtra)
Tolerances == (0 - 1) .. MaxTol
\* The tangent vectors a caller hands to a chart.
TangentInputs == { FracDen * k : k \in (0 - MaxTangent) .. MaxTangent }

\* A geodesic or chart that has not been constructed yet.
NoObject == [exists |-> FALSE]

\* ------------------------------------------------- Derived (planar rotation)
FromPointImpl(point) == point

\* Absolute value of the wrapped angular difference.
DistanceToImpl(self, rhs) == Abs(WrapAngle(rhs - self))

\* Move along the shortest arc from self towards rhs by fraction/FracDen.
InterpolateImpl(self, rhs, fraction) ==
  WrapAngle(self + (fraction * WrapAngle(rhs - self)) \div FracDen)

\* ------------------------------------------------------- ManifoldElement
FromPoint(point) == FromPointImpl(point)

DistanceTo(self, rhs) == DistanceToImpl(self, rhs)

Interpolate_Swapped(self, rhs, fraction) == InterpolateImpl(rhs, self, fraction)
Interpolate(self, rhs, fraction) == InterpolateImpl(self, rhs, fraction)

EqualTo_NonStrict(self, rhs, tolerance) == DistanceTo(self, rhs) <= tolerance
EqualTo_Magnitude(self, rhs, tolerance) == DistanceTo(self, rhs) < Abs(tolerance)
EqualTo(self, rhs, tolerance) == DistanceTo(self, rhs) < tolerance

OperatorEq(self, rhs) == EqualTo(self, rhs, kEpsilon)

OperatorNe_NoNegation(self, rhs) == OperatorEq(self, rhs)
OperatorNe(self, rhs) == ~ OperatorEq(self, rhs)

\* ------------------------------------------------------ ManifoldGeodesic
ManifoldGeodesic_Swapped(b, e) == [exists |-> TRUE, beg_ |-> e, end_ |-> b]
ManifoldGeodesic(b, e) == [exists |-> TRUE, beg_ |-> b, end_ |-> e]

GeodesicTo(self, rhs) == ManifoldGeodesic(self, rhs)

beg(g) == g.beg_
end(g) == g.end_

ClampFraction(f) == IF f < 0 THEN 0 ELSE IF f > FracDen THEN FracDen ELSE f
GeodesicInterpolate_Clamped(g, fraction) ==
  Interpolate(g.beg_, g.end_, ClampFraction(fraction))
GeodesicInterpolate(g, fraction) == Interpolate(g.beg_, g.end_, fraction)

Length_FromEnd(g) == DistanceTo(g.end_, g.end_)
Length(g) == DistanceTo(g.beg_, g.end_)

\* --------------------------------------------------------- ManifoldChart
ManifoldChart(origin) == [exists |-> TRUE, origin_ |-> origin]

\* TangentVector{} and Element{}: the value-initialised (zero) tangent vector
\* and the value-initialised element, the rotation by the zero angle.  Both
\* types belong to the realization; what matters below is only that the
\* value depends on neither the chart's origin nor the argument.
DefaultTangentVector == 0
DefaultElement == 0

\* `return {};` whatever the chart's origin and the argument are.
ToTangent(c, rhs) == DefaultTangentVector
ToManifold(c, rhs) == DefaultElement

\* ------------------------------------------------------------------ state
VARIABLES
  lhs,        \* the caller's element `*this`
  rhs,        \* the caller's element passed as `rhs`
  geodesic,   \* the caller's ManifoldGeodesic (beg_, end_)
  chart,      \* the caller's ManifoldChart (origin_)
  geoArgs,    \* the (beg, end) handed to the geodesic's constructor
  chartArg,   \* the origin handed to the chart's constructor
  last        \* the last call: its name, arguments and return value

vars == <<lhs, rhs, geodesic, chart, geoArgs, chartArg, last>>

\* The record of a call; unused fields keep their defaults.
Call(op, s, r, sc, tv, b, rs, re, rt) ==
  [op |-> op, self |-> s, rhs |-> r, scalar |-> sc, tangent |-> tv,
   retBool |-> b, retScalar |-> rs, retElement |-> re, retTangent |-> rt]

Init ==
  /\ lhs = FromPoint(0)
  /\ rhs = FromPoint(0)
  /\ geodesic = NoObject
  /\ chart = NoObject
  /\ geoArgs = <<0, 0>>
  /\ chartArg = 0
  /\ last = Call("none", 0, 0, 0, 0, FALSE, 0, 0, 0)

\* The caller builds `*this` from an embedding point (FromPoint).
CallFromPointLhs ==
  \E p \in EmbeddingPoints :
    /\ lhs' = FromPoint(p)
    /\ last' = Call("FromPoint", 0, 0, 0, 0, FALSE, 0, FromPoint(p), 0)
    /\ UNCHANGED <<rhs, geodesic, chart, geoArgs, chartArg>>

\* The caller builds `rhs` from an embedding point (FromPoint).
CallFromPointRhs ==
  \E p \in EmbeddingPoints :
    /\ rhs' = FromPoint(p)
    /\ last' = Call("FromPoint", 0, 0, 0, 0, FALSE, 0, FromPoint(p), 0)
    /\ UNCHANGED <<lhs, geodesic, chart, geoArgs, chartArg>>

\* lhs.GeodesicTo(rhs), the result kept by the caller.
CallGeodesicTo ==
  /\ geodesic' = GeodesicTo(lhs, rhs)
  /\ geoArgs' = <<lhs, rhs>>
  /\ last' = Call("GeodesicTo", lhs, rhs, 0, 0, FALSE, 0, 0, 0)
  /\ UNCHANGED <<lhs, rhs, chart, chartArg>>

\* lhs.DistanceTo(rhs)
CallDistanceTo ==
  /\ last' = Call("DistanceTo", lhs, rhs, 0, 0, FALSE, DistanceTo(lhs, rhs), 0, 0)
  /\ UNCHANGED <<lhs, rhs, geodesic, chart, geoArgs, chartArg>>

\* lhs.Interpolate(rhs, fraction)
CallInterpolate ==
  \E f \in Fractions :
    /\ last' = Call("Interpolate", lhs, rhs, f, 0, FALSE, 0,
                    Interpolate(lhs, rhs, f), 0)
    /\ UNCHANGED <<lhs, rhs, geodesic, chart, geoArgs, chartArg>>

\* lhs.EqualTo(rhs, tolerance)
CallEqualTo ==
  \E t \in Tolerances :
    /\ last' = Call("EqualTo", lhs, rhs, t, 0, EqualTo(lhs, rhs, t), 0, 0, 0)
    /\ UNCHANGED <<lhs, rhs, geodesic, chart, geoArgs, chartArg>>

\* lhs == rhs
CallOperatorEq ==
  /\ last' = Call("operator==", lhs, rhs, 0, 0, OperatorEq(lhs, rhs), 0, 0, 0)
  /\ UNCHANGED <<lhs, rhs, geodesic, chart, geoArgs, chartArg>>

\* lhs != rhs
CallOperatorNe ==
  /\ last' = Call("operator!=", lhs, rhs, 0, 0, OperatorNe(lhs, rhs), 0, 0, 0)
  /\ UNCHANGED <<lhs, rhs, geodesic, chart, geoArgs, chartArg>>

\* geodesic.beg()
CallBeg ==
  /\ geodesic.exists
  /\ last' = Call("beg", 0, 0, 0, 0, FALSE, 0, beg(geodesic), 0)
  /\ UNCHANGED <<lhs, rhs, geodesic, chart, geoArgs, chartArg>>

\* geodesic.end()
CallEnd ==
  /\ geodesic.exists
  /\ last' = Call("end", 0, 0, 0, 0, FALSE, 0, end(geodesic), 0)
  /\ UNCHANGED <<lhs, rhs, geodesic, chart, geoArgs, chartArg>>

\* A non-const Interpolate that walks the geodesic's begin point forward.
CallGeodesicInterpolate_Advancing ==
  \E f \in Fractions :
    /\ geodesic.exists
    /\ last' = Call("Geodesic::Interpolate", 0, 0, f, 0, FALSE, 0,
                    GeodesicInterpolate(geodesic, f), 0)
    /\ geodesic' = [geodesic EXCEPT !.beg_ = GeodesicInterpolate(geodesic, f)]
    /\ UNCHANGED <<lhs, rhs, chart, geoArgs, chartArg>>

\* geodesic.Interpolate(fraction)
CallGeodesicInterpolate ==
  \E f \in Fractions :
    /\ geodesic.exists
    /\ last' = Call("Geodesic::Interpolate", 0, 0, f, 0, FALSE, 0,
                    GeodesicInterpolate(geodesic, f), 0)
    /\ UNCHANGED <<lhs, rhs, geodesic, chart, geoArgs, chartArg>>

\* geodesic.Length()
CallLength ==
  /\ geodesic.exists
  /\ last' = Call("Length", 0, 0, 0, 0, FALSE, Length(geodesic), 0, 0)
  /\ UNCHANGED <<lhs, rhs, geodesic, chart, geoArgs, chartArg>>

\* Chart(lhs), the chart kept by the caller.
CallManifoldChart ==
  /\ chart' = ManifoldChart(lhs)
  /\ chartArg' = lhs
  /\ last' = Call("ManifoldChart", lhs, 0, 0, 0, FALSE, 0, 0, 0)
  /\ UNCHANGED <<lhs, rhs, geodesic, geoArgs>>

\* chart.ToTangent(rhs)
CallToTangent ==
  /\ chart.exists
  /\ last' = Call("ToTangent", 0, rhs, 0, 0, FALSE, 0, 0, ToTangent(chart, rhs))
  /\ UNCHANGED <<lhs, rhs, geodesic, chart, geoArgs, chartArg>>

\* chart.ToManifold(v)
CallToManifold ==
  \E v \in TangentInputs :
    /\ chart.exists
    /\ last' = Call("ToManifold", 0, 0, 0, v, FALSE, 0, ToManifold(chart, v), 0)
    /\ UNCHANGED <<lhs, rhs, geodesic, chart, geoArgs, chartArg>>

Next ==
  \/ CallFromPointLhs
  \/ CallFromPointRhs
  \/ CallGeodesicTo
  \/ CallDistanceTo
  \/ CallInterpolate
  \/ CallEqualTo
  \/ CallOperatorEq
  \/ CallOperatorNe
  \/ CallBeg
  \/ CallEnd
  \/ CallGeodesicInterpolate
  \/ CallLength
  \/ CallManifoldChart
  \/ CallToTangent
  \/ CallToManifold

Spec == Init /\ [][Next]_vars

TypeOK ==
  /\ lhs \in Elements
  /\ rhs \in Elements
  /\ geodesic.exists => (geodesic.beg_ \in Elements /\ geodesic.end_ \in Elements)
  /\ chart.exists => chart.origin_ \in Elements
  /\ last.retElement \in Elements
  /\ last.retScalar \in 0 .. HalfTurn

\* --------------------------------------------------------------- claims
\* Two scalars (or tangent coordinates) closer than the default tolerance.
ScalarClose(x, y) == Abs(x - y) < kEpsilon

\* C1: a.EqualTo(b, t) returns true exactly when a.DistanceTo(b) is strictly
\* less than t; a distance equal to t is not equal.
C1_EqualToIsStrictDistanceTest ==
  last.op = "EqualTo" =>
    (last.retBool <=> DistanceTo(last.self, last.rhs) < last.scalar)

\* C1 witness: EqualTo was called with a positive tolerance equal to the
\* distance of two distinct elements, and answered false.
C1_Witness ==
  /\ last.op = "EqualTo"
  /\ last.scalar > 0
  /\ DistanceTo(last.self, last.rhs) = last.scalar
  /\ ~ last.retBool

\* C2: a == b has the value of a.EqualTo(b, kEpsilon), and a != b is the
\* negation of a == b, so exactly one of the two holds for any pair.
C2_OperatorsDelegateToEqualTo ==
  /\ last.op = "operator==" =>
       last.retBool = EqualTo(last.self, last.rhs, kEpsilon)
  /\ last.op = "operator!=" =>
       /\ last.retBool = ~ EqualTo(last.self, last.rhs, kEpsilon)
       /\ last.retBool # OperatorEq(last.self, last.rhs)

\* C2 witness: operator!= was called on two distinct elements and returned
\* true.
C2_Witness ==
  /\ last.op = "operator!="
  /\ last.self # last.rhs
  /\ last.retBool

\* C3: geodesic.Interpolate(f) of a geodesic built from (beg, end) returns
\* beg.Interpolate(end, f), for fractions inside and outside [0, 1].
C3_GeodesicInterpolateDelegates ==
  last.op = "Geodesic::Interpolate" =>
    last.retElement = Interpolate(geoArgs[1], geoArgs[2], last.scalar)

\* C3 witness: an extrapolating fraction (beyond 1) was interpolated on a
\* geodesic between distinct elements and went past the end element.
C3_Witness ==
  /\ last.op = "Geodesic::Interpolate"
  /\ last.scalar > FracDen
  /\ geoArgs[1] # geoArgs[2]
  /\ last.retElement # geoArgs[2]
  /\ last.retElement # geoArgs[1]

\* C4: geodesic.Length() of a geodesic built from (beg, end) is
\* beg.DistanceTo(end); a.GeodesicTo(b).Length() is a.DistanceTo(b).
C4_LengthIsDistance ==
  /\ last.op = "Length" => last.retScalar = DistanceTo(geoArgs[1], geoArgs[2])
  /\ Length(GeodesicTo(lhs, rhs)) = DistanceTo(lhs, rhs)

\* C4 witness: Length was called on a geodesic between distinct elements and
\* returned a positive length.
C4_Witness ==
  /\ last.op = "Length"
  /\ geoArgs[1] # geoArgs[2]
  /\ last.retScalar > 0

\* C5: a.GeodesicTo(b) returns a geodesic whose beg() is a and whose end() is
\* b, in that order and unmodified.
C5_GeodesicToKeepsOrder ==
  /\ last.op = "GeodesicTo" =>
       /\ beg(geodesic) = last.self
       /\ end(geodesic) = last.rhs
  /\ last.op = "beg" => last.retElement = geoArgs[1]
  /\ last.op = "end" => last.retElement = geoArgs[2]

\* C5 witness: GeodesicTo was called with two distinct elements.
C5_Witness ==
  /\ last.op = "GeodesicTo"
  /\ last.self # last.rhs
  /\ geodesic.exists

\* C6: ToTangent and ToManifold of a chart are mutual inverses within
\* tolerance: ToManifold(ToTangent(x)) is tolerance-equal to x and
\* ToTangent(ToManifold(v)) is tolerance-equal to v.
C6_ChartMapsAreInverses ==
  /\ last.op = "ToTangent" =>
       OperatorEq(ToManifold(chart, last.retTangent), last.rhs)
  /\ last.op = "ToManifold" =>
       ScalarClose(ToTangent(chart, last.retElement), last.tangent)

\* C7: a.Interpolate(b, 0) is tolerance-equal to a and a.Interpolate(b, 1) to
\* b, and the same holds through a.GeodesicTo(b).Interpolate.
C7_InterpolateEndpoints ==
  /\ (last.op = "Interpolate" /\ last.scalar = 0) =>
       OperatorEq(last.retElement, last.self)
  /\ (last.op = "Interpolate" /\ last.scalar = FracDen) =>
       OperatorEq(last.retElement, last.rhs)
  /\ (last.op = "Geodesic::Interpolate" /\ last.scalar = 0) =>
       OperatorEq(last.retElement, geoArgs[1])
  /\ (last.op = "Geodesic::Interpolate" /\ last.scalar = FracDen) =>
       OperatorEq(last.retElement, geoArgs[2])

\* C7 witness: a geodesic between distinct elements was interpolated at
\* fraction 1 and returned its end element.
C7_Witness ==
  /\ last.op = "Geodesic::Interpolate"
  /\ last.scalar = FracDen
  /\ geoArgs[1] # geoArgs[2]
  /\ last.retElement = geoArgs[2]

\* The calls on a geodesic or a chart that are not constructions.
ConstCalls ==
  {"beg", "end", "Geodesic::Interpolate", "Length", "ToTangent", "ToManifold"}

\* C8: a call of beg, end, Interpolate, Length, ToTangent or ToManifold leaves
\* the geodesic's begin and end, the chart's origin and the caller's argument
\* elements as they were, equal to what the constructors were given.
C8_GeodesicAndChartImmutable ==
  [][last'.op \in ConstCalls =>
       /\ geodesic' = geodesic
       /\ chart' = chart
       /\ lhs' = lhs
       /\ rhs' = rhs
       /\ geodesic'.exists =>
            (geodesic'.beg_ = geoArgs'[1] /\ geodesic'.end_ = geoArgs'[2])
       /\ chart'.exists => chart'.origin_ = chartArg']_vars

\* C8 witness: both objects exist, the geodesic was interpolated to an element
\* that is neither of its endpoints, and the caller's elements have moved on
\* from the ones the objects were built from.
C8_Witness ==
  /\ last.op = "Geodesic::Interpolate"
  /\ geodesic.exists
  /\ chart.exists
  /\ last.retElement # geodesic.beg_
  /\ last.retElement # geodesic.end_
  /\ lhs # geodesic.beg_
  /\ lhs # chart.origin_

\* C9: a chart maps the zero tangent vector to its origin: ToManifold(0) is
\* the origin and ToTangent(origin) is the zero tangent vector.
C9_ZeroTangentIsOrigin ==
  /\ (last.op = "ToManifold" /\ last.tangent = 0) =>
       last.retElement = chart.origin_
  /\ (last.op = "ToTangent" /\ last.rhs = chart.origin_) =>
       last.retTangent = 0

\* C10: EqualTo is false whenever the tolerance is not positive, also for an
\* element compared with itself; it is reflexive exactly for positive
\* tolerance; and it is monotone in the tolerance.
C10_EqualToNeedsPositiveTolerance ==
  last.op = "EqualTo" =>
    /\ last.scalar <= 0 => ~ last.retBool
    /\ last.self = last.rhs => (last.retBool <=> last.scalar > 0)
    /\ last.retBool =>
         \A t \in Tolerances :
           t >= last.scalar => EqualTo(last.self, last.rhs, t)

\* C10 witness: an element was compared with itself at tolerance 0 and the
\* answer was false.
C10_Witness ==
  /\ last.op = "EqualTo"
  /\ last.self = last.rhs
  /\ last.scalar = 0
  /\ ~ last.retBool
====
